---- MODULE Spec2Model ----
(***************************************************************************)
(* Verification model of the algo-bot backend (src/algo-bot/backend):      *)
(*   api.py  - MexcAPI._request, the rate-limited market data client       *)
(*   db.py   - the SQLite persistence layer                                *)
(*   main.py - the three funnel stages and their scheduler                 *)
(* Time is discrete: one tick is half of rate_limit_delay (50 ms).         *)
(***************************************************************************)
EXTENDS Integers, Sequences, FiniteSets, Bags, TLC

(***************************************************************************)
(* Part 1: MexcAPI._request (api.py)                                       *)
(***************************************************************************)

\* api.py:30  self.rate_limit_delay = 0.1 s, here in ticks of 50 ms
rate_limit_delay == 2

\* bounds of the client model
MaxCalls == 3
StartTime == 3
ClockSpan == 4

Callers == {"t1", "t2"}
NoCaller == "nobody"
MaxTime == StartTime + ClockSpan
NoTime == 0 - 1

VARIABLES
  now,                \* time.time(), the wall clock
  rate_limit_lock,    \* holder of self._rate_limit_lock, NoCaller when free
  last_request_time,  \* self._last_request_time
  pc,                 \* position of each caller inside _request
  wake,               \* end of the caller's time.sleep
  outcome,            \* what the caller's latest _request ended in
  respClass,          \* class of the HTTP exchange that produced outcome
  callNo,             \* history: number of _request calls the caller has started
  firstStart,         \* history: time the caller entered its first call
  callStart,          \* history: time the caller entered its latest call
  gateTime,           \* history: value the caller's latest call wrote to last_request_time
  lastSend,           \* history: time of the latest session.get issued by any caller
  minSendGap          \* history: smallest gap between two session.get issues so far

apiVars == <<now, rate_limit_lock, last_request_time, pc, wake, outcome, respClass,
             callNo, firstStart, callStart, gateTime, lastSend, minSendGap>>

Min(a, b) == IF a < b THEN a ELSE b

\* the HTTP exchanges session.get / raise_for_status / json can produce
Statuses == {"2xx", "3xx", "4xx", "5xx"}
Bodies == {"list", "dict_no_code", "dict_code_200", "dict_code_other", "not_json"}
Responses ==
  {[transport |-> "fail", status |-> "none", body |-> "none"]} \cup
  {[transport |-> "ok", status |-> s, body |-> b] : s \in Statuses, b \in Bodies}

\* api.py:50  requests' raise_for_status raises HTTPError for 4xx and 5xx only
raise_for_status(r) == r.status \in {"4xx", "5xx"}

\* api.py:53  isinstance(data, dict) and 'code' in data and data['code'] != 200
body_error(r) == r.body = "dict_code_other"

DataResult == [kind |-> "data", msg |-> "none"]
RequestFailed == [kind |-> "ValueError", msg |-> "Request failed"]
ApiError == [kind |-> "ValueError", msg |-> "API error"]
NoResult == [kind |-> "none", msg |-> "none"]

\* api.py:48-59  the try block of _request
RequestOutcome(r) ==
  IF r.transport = "fail" THEN RequestFailed
  ELSE IF raise_for_status(r) THEN RequestFailed
  ELSE IF r.body = "not_json" THEN RequestFailed
  ELSE IF body_error(r) THEN ApiError
  ELSE DataResult

\* the claim's classes of failing exchange
ClassOf(r) ==
  IF r.transport = "fail" THEN "transport"
  ELSE IF r.status # "2xx" THEN "non2xx"
  ELSE IF r.body = "dict_code_other" THEN "body_code"
  ELSE IF r.body = "not_json" THEN "bad_json"
  ELSE "ok"

SleepForNothing(elapsed) == 0

\* api.py:42-43  the remainder of the interval the caller sleeps
SleepFor(elapsed) ==
  IF elapsed < rate_limit_delay THEN rate_limit_delay - elapsed ELSE 0

\* api.py:34  a caller enters _request
Call(t) ==
  /\ pc[t] \in {"idle", "done"}
  /\ callNo[t] < MaxCalls
  /\ pc' = [pc EXCEPT ![t] = "acquire"]
  /\ callNo' = [callNo EXCEPT ![t] = @ + 1]
  /\ callStart' = [callStart EXCEPT ![t] = now]
  /\ firstStart' = [firstStart EXCEPT ![t] = IF callNo[t] = 0 THEN now ELSE @]
  /\ outcome' = [outcome EXCEPT ![t] = NoResult]
  /\ respClass' = [respClass EXCEPT ![t] = "none"]
  /\ UNCHANGED <<now, rate_limit_lock, last_request_time, wake, gateTime,
                 lastSend, minSendGap>>

\* api.py:39  with self._rate_limit_lock: (enter)
Acquire(t) ==
  /\ pc[t] = "acquire"
  /\ rate_limit_lock = NoCaller
  /\ rate_limit_lock' = t
  /\ pc' = [pc EXCEPT ![t] = "locked"]
  /\ UNCHANGED <<now, last_request_time, wake, outcome, respClass, callNo,
                 firstStart, callStart, gateTime, lastSend, minSendGap>>

\* api.py:40-43  now, elapsed, and the start of time.sleep
CheckElapsed(t) ==
  /\ pc[t] = "locked"
  /\ LET elapsed == now - last_request_time
     IN IF elapsed < rate_limit_delay
        THEN /\ wake' = [wake EXCEPT ![t] = now + SleepFor(elapsed)]
             /\ pc' = [pc EXCEPT ![t] = "sleep"]
        ELSE /\ wake' = wake
             /\ pc' = [pc EXCEPT ![t] = "stamp"]
  /\ UNCHANGED <<now, rate_limit_lock, last_request_time, outcome, respClass,
                 callNo, firstStart, callStart, gateTime, lastSend, minSendGap>>

\* api.py:43  time.sleep returns, never before the requested time has passed
WakeUp(t) ==
  /\ pc[t] = "sleep"
  /\ now >= wake[t]
  /\ pc' = [pc EXCEPT ![t] = "stamp"]
  /\ UNCHANGED <<now, rate_limit_lock, last_request_time, wake, outcome, respClass,
                 callNo, firstStart, callStart, gateTime, lastSend, minSendGap>>

\* api.py:44  self._last_request_time = time.time()
Stamp(t) ==
  /\ pc[t] = "stamp"
  /\ last_request_time' = now
  /\ gateTime' = [gateTime EXCEPT ![t] = now]
  /\ pc' = [pc EXCEPT ![t] = "release"]
  /\ UNCHANGED <<now, rate_limit_lock, wake, outcome, respClass, callNo,
                 firstStart, callStart, lastSend, minSendGap>>

ReleaseKeepsLock(t) ==
  /\ pc[t] = "release"
  /\ pc' = [pc EXCEPT ![t] = "get"]
  /\ UNCHANGED <<now, rate_limit_lock, last_request_time, wake, outcome, respClass,
                 callNo, firstStart, callStart, gateTime, lastSend, minSendGap>>

\* api.py:39-45  the with block ends: the lock is released before the HTTP call
Release(t) ==
  /\ pc[t] = "release"
  /\ rate_limit_lock' = NoCaller
  /\ pc' = [pc EXCEPT ![t] = "get"]
  /\ UNCHANGED <<now, last_request_time, wake, outcome, respClass, callNo,
                 firstStart, callStart, gateTime, lastSend, minSendGap>>

\* api.py:49  session.get sends the outbound request
SendRequest(t) ==
  /\ pc[t] = "get"
  /\ pc' = [pc EXCEPT ![t] = "http"]
  /\ lastSend' = now
  /\ minSendGap' = IF lastSend = NoTime THEN minSendGap
                   ELSE Min(minSendGap, now - lastSend)
  /\ UNCHANGED <<now, rate_limit_lock, last_request_time, wake, outcome, respClass,
                 callNo, firstStart, callStart, gateTime>>

\* api.py:49-59  the exchange ends: data is returned or ValueError raised
Respond(t) ==
  /\ pc[t] = "http"
  /\ \E r \in Responses :
       /\ outcome' = [outcome EXCEPT ![t] = RequestOutcome(r)]
       /\ respClass' = [respClass EXCEPT ![t] = ClassOf(r)]
  /\ pc' = [pc EXCEPT ![t] = "done"]
  /\ UNCHANGED <<now, rate_limit_lock, last_request_time, wake, callNo,
                 firstStart, callStart, gateTime, lastSend, minSendGap>>

\* the wall clock advances
Tick ==
  /\ now < MaxTime
  /\ now' = now + 1
  /\ UNCHANGED <<rate_limit_lock, last_request_time, pc, wake, outcome, respClass,
                 callNo, firstStart, callStart, gateTime, lastSend, minSendGap>>

\* api.py:16-32  MexcAPI.__init__; the clock reads far more than rate_limit_delay
ApiInit ==
  /\ now = StartTime
  /\ rate_limit_lock = NoCaller
  /\ last_request_time = 0
  /\ pc = [t \in Callers |-> "idle"]
  /\ wake = [t \in Callers |-> 0]
  /\ outcome = [t \in Callers |-> NoResult]
  /\ respClass = [t \in Callers |-> "none"]
  /\ callNo = [t \in Callers |-> 0]
  /\ firstStart = [t \in Callers |-> NoTime]
  /\ callStart = [t \in Callers |-> NoTime]
  /\ gateTime = [t \in Callers |-> NoTime]
  /\ lastSend = NoTime
  /\ minSendGap = rate_limit_delay

ApiNext ==
  \/ Tick
  \/ \E t \in Callers : Call(t)
  \/ \E t \in Callers : Acquire(t)
  \/ \E t \in Callers : CheckElapsed(t)
  \/ \E t \in Callers : WakeUp(t)
  \/ \E t \in Callers : Stamp(t)
  \/ \E t \in Callers : Release(t)
  \/ \E t \in Callers : SendRequest(t)
  \/ \E t \in Callers : Respond(t)

(***************************************************************************)
(* Part 2: the persistence layer (db.py) and the enrichment of raw klines  *)
(* (strategies.py)                                                         *)
(***************************************************************************)

\* config.py:24  MAX_KLINES_FAILURES
MAX_KLINES_FAILURES == 5

\* main.py:60  get_active_symbols_with_history(200, '1h'); one modelled bar
\* stands for 100 bars, so that a full kline batch (limit=210) reaches it
min_hours == 2

\* bounds of the database model
MaxTs == 2          \* open times a kline row can carry
MaxRows == 3        \* rows the kline tables hold together in the store specification
MaxFailCount == 6   \* cap of klines_fail_count

SymbolNames == {"AUSDT", "BUSDT"}
SymbolOrder == <<"AUSDT", "BUSDT">>
Intervals == {"1h", "15m", "5m"}

NULL == 0 - 1       \* SQL NULL / Python None
NaN == 0 - 2        \* float('nan')
Junk == 0 - 3       \* a raw field that is no number

VARIABLES
  symbols,            \* table symbols: per name, stored / is_active / klines_fail_count
  klines,             \* tables klines_1h, klines_15m, klines_5m: bags of rows
  top_symbols_1h,     \* table top_symbols_1h: the snapshots, oldest first
  signals,            \* table signals: the rows in id order
  TOP_20_15M,         \* main.py:28  the global list of Stage B
  streak,             \* history: consecutive increment_klines_fail_count calls per symbol
  deactivated,        \* history: symbols with MAX_KLINES_FAILURES consecutive increments since the last sync
  last                \* history: the latest operation and what it fetched

dbVars == <<symbols, klines, top_symbols_1h, signals, TOP_20_15M, streak, deactivated, last>>

VARIABLES
  running,            \* main.py:19  the global flag the scheduler loop tests
  mainpc,             \* where main() stands
  due,                \* the jobs schedule.run_pending has yet to run in this call
  db_file,            \* whether bot.db exists and is not empty
  backfill,           \* what main() decided and did about the one-time backfill
  starts,             \* how many times the process has been started
  passes              \* schedule.run_pending calls of the running process

mainVars == <<running, mainpc, due, db_file, backfill, starts, passes>>

VARIABLE
  calc                \* the last call of a pure function: its name, input and result


vars == <<now, rate_limit_lock, last_request_time, pc, wake, outcome, respClass,
          callNo, firstStart, callStart, gateTime, lastSend, minSendGap,
          symbols, klines, top_symbols_1h, signals, TOP_20_15M, streak, deactivated, last,
         running, mainpc, due, db_file, backfill, starts, passes, calc>>

\* the history record of an operation: the symbols whose klines it fetched,
\* those whose kline fetch failed, and the fail counts it started from
NoCounts == [s \in SymbolNames |-> 0]
NoOp == [op |-> "none", fetched |-> {}, failed |-> {}, failBefore |-> NoCounts,
         revived |-> {}, args |-> <<>>, produced |-> <<>>, batch |-> <<>>,
         attempts |-> <<>>, errors |-> {}, known |-> TRUE,
         scores |-> <<>>, momentum |-> <<>>]
Stages == {"hourly_scan", "poll_15m", "poll_5m_confirm"}

NotStored == [stored |-> FALSE, is_active |-> 0, klines_fail_count |-> 0]

\* db.py:15-156  create_tables: every table exists and is empty
DbInit ==
  /\ symbols = [s \in SymbolNames |-> NotStored]
  /\ klines = [i \in Intervals |-> EmptyBag]
  /\ top_symbols_1h = <<>>
  /\ signals = <<>>
  /\ TOP_20_15M = <<>>
  /\ streak = [s \in SymbolNames |-> 0]
  /\ deactivated = {}
  /\ last = NoOp

SeqToSet(q) == {q[i] : i \in 1..Len(q)}

\* strategies.py:23-26  pd.to_numeric(df[col], errors='coerce')
to_numeric(field) == IF field = Junk THEN NaN ELSE field

\* strategies.py:76  df.replace({np.nan: None})
nan_to_none(x) == IF x = NaN THEN NULL ELSE x

\* strategies.py:10-85  calculate_and_enrich_klines: one tuple per raw kline,
\* keyed by symbol and the coerced open time; an empty list gives an empty list
calculate_and_enrich_klines(symbol, raw) ==
  [i \in 1..Len(raw) |->
     [symbol |-> symbol, timestamp |-> nan_to_none(to_numeric(raw[i]))]]

\* db.py:58, 275  INSERT OR IGNORE under UNIQUE(symbol, timestamp): SQLite
\* holds NULLs distinct, so a row with a NULL timestamp never conflicts
InsertOrIgnore(table, row) ==
  IF row.timestamp # NULL /\ BagIn(row, table)
  THEN table
  ELSE table (+) SetToBag({row})

RECURSIVE executemany(_, _, _)
\* db.py:282  cursor.executemany(insert_sql, enriched_klines)
executemany(table, rows, i) ==
  IF i > Len(rows) THEN table
  ELSE executemany(InsertOrIgnore(table, rows[i]), rows, i + 1)

\* db.py:265-288  save_klines_by_interval, as a function of the tables
save_klines_by_interval(tables, interval, enriched) ==
  IF enriched = <<>> THEN tables
  ELSE [tables EXCEPT ![interval] = executemany(@, enriched, 1)]

\* number of rows of the three kline tables together
TotalRows(tables) ==
  BagCardinality(tables["1h"]) + BagCardinality(tables["15m"]) + BagCardinality(tables["5m"])

\* raw kline batches the exchange can deliver: open times, some unparsable
RawFields == (1..MaxTs) \cup {Junk}
RawBatches == {<<a>> : a \in RawFields} \cup {<<a, b>> : a \in RawFields, b \in RawFields}

\* main.py:47-48, 69-70, 109-110, 141-142  enrich one symbol's klines and save them
SaveKlines(interval, symbol, raw) ==
  /\ klines' = save_klines_by_interval(klines, interval,
                                       calculate_and_enrich_klines(symbol, raw))
  /\ TotalRows(klines') <= MaxRows
  /\ last' = [NoOp EXCEPT !.op = "save_klines_by_interval",
                          !.args = <<interval, symbol, raw>>]
  /\ UNCHANGED <<symbols, top_symbols_1h, signals, TOP_20_15M, deactivated, streak>>

\* db.py:226  rows of get_all_symbols, as a set
ActiveSet(tab) ==
  {s \in DOMAIN tab : tab[s].stored /\ tab[s].is_active = 1
                       /\ tab[s].klines_fail_count < MAX_KLINES_FAILURES}

\* the elements of q that are in keep, in the order of q
Filter(q, keep) == SelectSeq(q, LAMBDA x : x \in keep)

\* a symbols table of more rows than a snapshot holds
WideCount == 101
WideOrder == SubSeq([i \in 1..WideCount |-> "S" \o ToString(i)], 1, WideCount)
WideNames == {WideOrder[i] : i \in 1..WideCount}
\* the position of a symbol of the wide table
WideIndex(s) == CHOOSE i \in 1..WideCount : WideOrder[i] = s

\* the order in which the rows of the symbols table are returned
TableOrder(tab) == IF DOMAIN tab = SymbolNames THEN SymbolOrder ELSE WideOrder

\* db.py:221-229  get_all_symbols
get_all_symbols == Filter(TableOrder(symbols), ActiveSet(symbols))

\* db.py:367  COUNT(k.timestamp): rows of the symbol whose timestamp is not NULL
HistoryCount(table, s) ==
  LET keyed == {r \in BagToSet(table) : r.symbol = s /\ r.timestamp # NULL}
  IN BagCardinality([r \in keyed |-> CopiesIn(r, table)])

\* a query that asks for no history: every active symbol
get_active_symbols_any_history(minimum, interval) ==
  Filter(TableOrder(symbols), ActiveSet(symbols))

\* db.py:351-372  get_active_symbols_with_history
get_active_symbols_with_history(minimum, interval) ==
  Filter(TableOrder(symbols),
         {s \in ActiveSet(symbols) : HistoryCount(klines[interval], s) >= minimum})

IncrementedAbove(tab, symbol) ==
  LET current_count == tab[symbol].klines_fail_count + 1
  IN [tab EXCEPT ![symbol] =
        [@ EXCEPT !.klines_fail_count = current_count,
                  !.is_active = IF current_count > MAX_KLINES_FAILURES THEN 0 ELSE @]]

\* db.py:239-245  the row of `symbol` after increment_klines_fail_count
Incremented(tab, symbol) ==
  LET current_count == tab[symbol].klines_fail_count + 1
  IN [tab EXCEPT ![symbol] =
        [@ EXCEPT !.klines_fail_count = current_count,
                  !.is_active = IF current_count >= MAX_KLINES_FAILURES THEN 0 ELSE @]]

\* db.py:231-250  increment_klines_fail_count on a stored symbol
increment_klines_fail_count(symbol) ==
  /\ symbols[symbol].stored
  /\ symbols[symbol].klines_fail_count < MaxFailCount
  /\ symbols' = Incremented(symbols, symbol)
  /\ streak' = [streak EXCEPT ![symbol] = @ + 1]
  /\ deactivated' = IF streak'[symbol] >= MAX_KLINES_FAILURES
                    THEN deactivated \cup {symbol} ELSE deactivated
  /\ last' = [NoOp EXCEPT !.op = "increment_klines_fail_count"]
  /\ UNCHANGED <<klines, top_symbols_1h, signals, TOP_20_15M>>

\* db.py:252-263  reset_klines_fail_count on a stored symbol
reset_klines_fail_count(symbol) ==
  /\ symbols[symbol].stored
  /\ symbols' = [symbols EXCEPT ![symbol].klines_fail_count = 0]
  /\ streak' = [streak EXCEPT ![symbol] = 0]
  /\ last' = [NoOp EXCEPT !.op = "reset_klines_fail_count"]
  /\ UNCHANGED <<klines, top_symbols_1h, signals, TOP_20_15M, deactivated>>

\* db.py:186-210  the rows of symbols after a sync that reports `tradable`:
\* the upsert of a stored symbol sets is_active alone
SyncedSymbols(tab, tradable) ==
  [s \in SymbolNames |->
     IF s \in tradable
     THEN IF tab[s].stored THEN [tab[s] EXCEPT !.is_active = 1]
          ELSE [stored |-> TRUE, is_active |-> 1, klines_fail_count |-> 0]
     ELSE [tab[s] EXCEPT !.is_active = 0]]

\* db.py:176-219  init_symbols_db: the exchange reports the set `tradable`, or
\* get_exchange_info fails; without tradable symbols nothing is committed
init_symbols_db(ok, tradable) ==
  LET committed == ok /\ tradable # {}
  IN /\ symbols' = IF committed THEN SyncedSymbols(symbols, tradable) ELSE symbols
     /\ deactivated' = IF committed THEN {} ELSE deactivated
     /\ last' = [NoOp EXCEPT !.op = "init_symbols_db",
                             !.revived = IF committed THEN deactivated \cap tradable ELSE {},
                             !.args = <<ok, IF ok THEN tradable ELSE {}>>]
     /\ UNCHANGED <<klines, top_symbols_1h, signals, TOP_20_15M, streak>>

(***************************************************************************)
(* Part 3: the funnel stages (main.py)                                     *)
(***************************************************************************)

\* main.py:88  [:100]
TOP_100 == 100
\* main.py:123  [:20]
TOP_20 == 20
\* main.py:117  prob_score > 0.4, scores in tenths
THRESHOLD_15M == 4

\* bounds of the funnel model
MaxSignals == 2     \* rows of signals the model follows

\* scores evaluate_strategy can give, in tenths: none, weak, strong
Scores == {0, 3, 5}
\* the same for the hourly bars: none, strong
HourlyScores == {0, 5}
\* latest momentum_roc of a 5m batch: falling, flat, undefined
Momenta == {0 - 1, 0, NaN}

\* the exchanges a stage's api.get_klines can meet
HttpTransportFail == [transport |-> "fail", status |-> "none", body |-> "none"]
HttpBodyError == [transport |-> "ok", status |-> "2xx", body |-> "dict_code_other"]
HttpKlines == [transport |-> "ok", status |-> "2xx", body |-> "list"]

FullBatch == [i \in 1..min_hours |-> i]   \* limit=210: enough bars for the history check
ShortBatch == <<1>>                       \* a young symbol: fewer bars than the check asks

\* what the market gives one symbol during one stage run: the exchange of the
\* kline call, the raw klines, the score and momentum they lead to, and
\* whether the price call succeeds
Reply(http, raw, score, momentum, price_ok) ==
  [http |-> http, raw |-> raw, score |-> score, momentum |-> momentum,
   price_ok |-> price_ok]
FailedReplies ==
  {Reply(h, <<>>, 0, NaN, FALSE) : h \in {HttpTransportFail, HttpBodyError}}
\* the score is never computed under a strategy name that raises, and the
\* price is never asked for under a falling momentum
PopulationReplies ==
  FailedReplies \cup {Reply(HttpKlines, raw, 0, NaN, FALSE) : raw \in {FullBatch, ShortBatch}}
HourlyReplies(known) ==
  FailedReplies \cup
  {Reply(HttpKlines, raw, sc, NaN, FALSE) :
     raw \in {FullBatch, ShortBatch}, sc \in IF known THEN HourlyScores ELSE {0}}
Poll15mReplies(known) ==
  FailedReplies \cup
  {Reply(HttpKlines, ShortBatch, sc, NaN, FALSE) : sc \in IF known THEN Scores ELSE {0}}
Poll5mReplies ==
  FailedReplies \cup
  ({Reply(HttpKlines, ShortBatch, 0, m, ok) : m \in Momenta, ok \in BOOLEAN}
     \ {Reply(HttpKlines, ShortBatch, 0, 0 - 1, TRUE)})

\* api.py:48-59, 67-79  api.get_klines raises ValueError
get_klines_fails(reply) == RequestOutcome(reply.http).kind = "ValueError"

\* strategies (not in src): evaluate_strategy(df, STRATEGY)['prob_score']
evaluate_strategy(reply) == reply.score

\* strategies.py:220-221  a strategy name outside the catalog raises ValueError
strategy_raises(known) == ~known

\* a sort that leaves the candidates in the order of the scan
SortedAsScanned(items, i) == items

RECURSIVE ByScore(_, _)
\* the candidates of the highest score in their order, then the rest likewise
ByScore(items, scores) ==
  IF scores = {} THEN <<>>
  ELSE LET top == CHOOSE v \in scores : \A w \in scores : w <= v
       IN SelectSeq(items, LAMBDA c : c.prob_score = top) \o ByScore(items, scores \ {top})

\* main.py:88, 123  sorted(candidates, key=prob_score, reverse=True) of the
\* first i candidates: higher scores first, and the candidates of one score
\* in the order they had (the sort is stable)
SortedDesc(items, i) ==
  ByScore(SubSeq(items, 1, i), {items[k].prob_score : k \in 1..i})

\* a slice that keeps everything
TakeAll(q, n) == q

\* main.py:88, 123  q[:n]
Take(q, n) == SubSeq(q, 1, Min(n, Len(q)))

\* db.py:388  timedelta(hours=24)
RETENTION_HOURS == 24

\* hours between two inserts into top_symbols_1h. The funnel is followed
\* with inserts more than the retention apart, so that one snapshot is held;
\* the table is followed with gaps inside, at and beyond the retention
ScanGaps == {RETENTION_HOURS + 1}
SnapshotGaps == {8, 16, RETENTION_HOURS, RETENTION_HOURS + 1}

\* the rows inserted by one call share one timestamp: a snapshot is their
\* list with the age of that timestamp, counted from the newest timestamp
\* of the table
Aged(table, gap) == [i \in 1..Len(table) |-> [table[i] EXCEPT !.age = @ + gap]]

\* an insert that prunes nothing
insert_top_symbols_keeps_all(table, top_list, gap) ==
  Append(Aged(table, gap), [age |-> 0, rows |-> top_list])

\* db.py:374-392  insert_top_symbols, `gap` hours after the newest snapshot:
\* INSERT the rows under ts = utcnow(), then DELETE WHERE timestamp < ts - 24 h
insert_top_symbols(table, top_list, gap) ==
  LET inserted == Append(Aged(table, gap), [age |-> 0, rows |-> top_list])
  IN SelectSeq(inserted, LAMBDA snap : ~(snap.age > RETENTION_HOURS))

\* db.py:406-417  get_latest_top_symbols
get_latest_top_symbols(n) ==
  IF top_symbols_1h = <<>> THEN <<>>
  ELSE Take(top_symbols_1h[Len(top_symbols_1h)].rows, n)

\* db.py:290-312  save_signal: a plain INSERT
save_signal(table, symbol, prob_score) ==
  Append(table, [symbol |-> symbol, prob_score |-> prob_score])

\* the running state of a stage's loop
Loop(tables, cands, sigs) ==
  [klines |-> tables, cands |-> cands, signals |-> sigs, fetched |-> {}, failed |-> {},
   attempts |-> <<>>, errors |-> {}, scores |-> <<>>, momentum |-> <<>>]

\* main.py:67-81  hourly_scan, one symbol
HourlyStep(acc, symbol, reply, known) ==
  LET f == [acc EXCEPT !.fetched = @ \cup {symbol}, !.attempts = Append(@, symbol)]
  IN IF get_klines_fails(reply)
     THEN [f EXCEPT !.failed = @ \cup {symbol}, !.errors = @ \cup {symbol}]
     ELSE LET saved == [f EXCEPT !.klines = save_klines_by_interval(@, "1h",
                                     calculate_and_enrich_klines(symbol, reply.raw))]
              scored == [saved EXCEPT !.scores = @ @@ (symbol :> evaluate_strategy(reply))]
          IN IF strategy_raises(known) THEN [saved EXCEPT !.errors = @ \cup {symbol}]
             ELSE IF evaluate_strategy(reply) > 0
             THEN [scored EXCEPT !.cands =
                     Append(@, [symbol |-> symbol, prob_score |-> evaluate_strategy(reply)])]
             ELSE scored

\* main.py:105-121  poll_15m, one item of the snapshot
Poll15mStep(acc, item, reply, known) ==
  LET f == [acc EXCEPT !.fetched = @ \cup {item.symbol}, !.attempts = Append(@, item.symbol)]
  IN IF get_klines_fails(reply)
     THEN [f EXCEPT !.failed = @ \cup {item.symbol}, !.errors = @ \cup {item.symbol}]
     ELSE LET saved == [f EXCEPT !.klines = save_klines_by_interval(@, "15m",
                                     calculate_and_enrich_klines(item.symbol, reply.raw))]
              scored == [saved EXCEPT !.scores = @ @@ (item.symbol :> evaluate_strategy(reply))]
          IN IF strategy_raises(known) THEN [saved EXCEPT !.errors = @ \cup {item.symbol}]
             ELSE IF evaluate_strategy(reply) > THRESHOLD_15M
             THEN [scored EXCEPT !.cands =
                     Append(@, [symbol |-> item.symbol, prob_score |-> evaluate_strategy(reply)])]
             ELSE scored

\* main.py:148  momentum, 0 when momentum_roc is missing or NaN
momentum_or_zero(reply) == IF reply.momentum = NaN THEN 0 ELSE reply.momentum

\* main.py:137-158  poll_5m_confirm, one item of TOP_20_15M
Poll5mStep(acc, item, reply) ==
  LET f == [acc EXCEPT !.fetched = @ \cup {item.symbol}, !.attempts = Append(@, item.symbol)]
  IN IF get_klines_fails(reply)
     THEN [f EXCEPT !.failed = @ \cup {item.symbol}, !.errors = @ \cup {item.symbol}]
     ELSE LET saved == [f EXCEPT !.klines = save_klines_by_interval(@, "5m",
                                     calculate_and_enrich_klines(item.symbol, reply.raw)),
                                 !.momentum = @ @@ (item.symbol :> reply.momentum)]
          IN IF momentum_or_zero(reply) >= 0
             THEN IF reply.price_ok
                  THEN [saved EXCEPT !.signals = save_signal(@, item.symbol, item.prob_score)]
                  ELSE [saved EXCEPT !.errors = @ \cup {item.symbol}]
             ELSE saved

\* main.py:43-52  initial_kline_population, one symbol
PopulationStep(acc, symbol, reply) ==
  LET f == [acc EXCEPT !.fetched = @ \cup {symbol}, !.attempts = Append(@, symbol)]
  IN IF get_klines_fails(reply)
     THEN [f EXCEPT !.failed = @ \cup {symbol}, !.errors = @ \cup {symbol}]
     ELSE [f EXCEPT !.klines = save_klines_by_interval(@, "1h",
                                     calculate_and_enrich_klines(symbol, reply.raw))]

RECURSIVE HourlyLoopAborts(_, _, _, _, _)
\* the loop without its per-symbol try/except: the first error ends the run
HourlyLoopAborts(acc, syms, replies, known, i) ==
  IF i > Len(syms) \/ acc.errors # {} THEN acc
  ELSE HourlyLoopAborts(HourlyStep(acc, syms[i], replies[syms[i]], known), syms, replies,
                        known, i + 1)

RECURSIVE HourlyLoop(_, _, _, _, _)
\* main.py:63  for i, symbol in enumerate(symbols), from position i on: the
\* positions up to the middle in order, then the ones after it. No symbol has
\* a turn once as many turns as symbols were taken
HourlyLoop(acc, syms, replies, known, i) ==
  IF i > Len(syms) \/ Len(acc.attempts) >= Len(syms) THEN acc
  ELSE IF i = Len(syms) THEN HourlyStep(acc, syms[i], replies[syms[i]], known)
  ELSE LET mid == (i + Len(syms)) \div 2
       IN HourlyLoop(HourlyLoop(acc, SubSeq(syms, 1, mid), replies, known, i), syms, replies,
                     known, mid + 1)

RECURSIVE Poll15mLoop(_, _, _, _, _)
\* main.py:105  for item in top_100, from position i on: the positions up to
\* the middle in order, then the ones after it. No item has a turn once as
\* many turns as items were taken
Poll15mLoop(acc, items, replies, known, i) ==
  IF i > Len(items) \/ Len(acc.attempts) >= Len(items) THEN acc
  ELSE IF i = Len(items)
  THEN Poll15mStep(acc, items[i], replies[items[i].symbol], known)
  ELSE LET mid == (i + Len(items)) \div 2
       IN Poll15mLoop(Poll15mLoop(acc, SubSeq(items, 1, mid), replies, known, i), items,
                      replies, known, mid + 1)

RECURSIVE Poll5mLoop(_, _, _, _)
Poll5mLoop(acc, items, replies, i) ==
  IF i > Len(items) THEN acc
  ELSE Poll5mLoop(Poll5mStep(acc, items[i], replies[items[i].symbol]), items, replies, i + 1)

RECURSIVE PopulationLoop(_, _, _, _)
PopulationLoop(acc, syms, replies, i) ==
  IF i > Len(syms) THEN acc
  ELSE PopulationLoop(PopulationStep(acc, syms[i], replies[syms[i]]), syms, replies, i + 1)

\* main.py:89  the ranked rows of a snapshot
Ranked(top) ==
  [i \in 1..Len(top) |->
     [symbol |-> top[i].symbol, prob_score |-> top[i].prob_score, rank |-> i]]

FailCounts == [s \in DOMAIN symbols |-> symbols[s].klines_fail_count]

StageOp(name, acc, batch) ==
  [NoOp EXCEPT !.op = name, !.fetched = acc.fetched, !.failed = acc.failed,
               !.failBefore = FailCounts, !.batch = batch, !.attempts = acc.attempts,
               !.errors = acc.errors, !.scores = acc.scores, !.momentum = acc.momentum]

\* the symbols of a list of ranked rows, in order
SymbolsOf(items) == [i \in 1..Len(items) |-> items[i].symbol]

\* main.py:30-56  initial_kline_population
initial_kline_population ==
  LET syms == get_all_symbols
  IN \E replies \in [SeqToSet(syms) -> PopulationReplies] :
       LET acc == PopulationLoop(Loop(klines, <<>>, signals), syms, replies, 1)
       IN /\ klines' = acc.klines
          /\ last' = StageOp("initial_kline_population", acc, syms)
          /\ UNCHANGED <<symbols, top_symbols_1h, signals, TOP_20_15M, streak,
                         deactivated>>

\* what the market gives every symbol of a run: any reply to each
HourlyMarkets(names, known) == [names -> HourlyReplies(known)]
Poll15mMarkets(names, known) == [names -> Poll15mReplies(known)]

\* scores of the wide market, in tenths
WideScores == <<0, 3, 5, 7>>
\* the wide market gives the symbol at position i, under pattern k: scores
\* in a cycle; three scores, the low ones first; failures among two high scores
WidePatterns == 1..3
WideReply(i, k) ==
  CASE k = 1 -> Reply(HttpKlines, FullBatch, WideScores[(i % 4) + 1], NaN, FALSE)
    [] k = 2 -> Reply(HttpKlines, FullBatch,
                      IF 5 * i < 2 * WideCount THEN 3
                      ELSE IF 10 * i < 9 * WideCount THEN 5 ELSE 7, NaN, FALSE)
    [] k = 3 -> IF i % 5 = 0 THEN Reply(HttpTransportFail, <<>>, 0, NaN, FALSE)
                ELSE Reply(HttpKlines, FullBatch, IF i % 2 = 0 THEN 7 ELSE 5, NaN, FALSE)
WideMarkets(names, known) ==
  {[s \in names |-> WideReply(WideIndex(s), k)] : k \in WidePatterns}

\* the markets a run of Stage A or Stage B can meet: the patterned ones over
\* the wide table, any at all over the small one
HourlyMarketsOf(wide, names, known) ==
  IF wide THEN WideMarkets(names, known) ELSE HourlyMarkets(names, known)
Poll15mMarketsOf(wide, names, known) ==
  IF wide THEN WideMarkets(names, known) ELSE Poll15mMarkets(names, known)

\* main.py:58-93  hourly_scan, in the wide markets or in the small ones
HourlyScanIn(wide) ==
  LET syms == get_active_symbols_with_history(min_hours, "1h")
  IN \E known \in BOOLEAN : \E replies \in HourlyMarketsOf(wide, SeqToSet(syms), known) :
     \E gap \in ScanGaps :
       LET acc == HourlyLoop(Loop(klines, <<>>, signals), syms, replies, known, 1)
           top_100 == Take(SortedDesc(acc.cands, Len(acc.cands)), TOP_100)
       IN /\ klines' = acc.klines
          /\ top_symbols_1h' = IF acc.cands # <<>>
                               THEN insert_top_symbols(top_symbols_1h, Ranked(top_100), gap)
                               ELSE top_symbols_1h
          /\ last' = [StageOp("hourly_scan", acc, syms) EXCEPT
                         !.produced = Ranked(top_100), !.known = known]
          /\ UNCHANGED <<symbols, signals, TOP_20_15M, streak, deactivated>>

\* main.py:58-93  hourly_scan
hourly_scan == HourlyScanIn(FALSE)

\* main.py:103-127  poll_15m past its early return, over the rows top_100
Poll15mOver(top_100, wide) ==
  \E known \in BOOLEAN :
  \E replies \in Poll15mMarketsOf(wide, {top_100[i].symbol : i \in 1..Len(top_100)}, known) :
    LET acc == Poll15mLoop(Loop(klines, <<>>, signals), top_100, replies, known, 1)
    IN /\ klines' = acc.klines
       /\ TOP_20_15M' = Take(SortedDesc(acc.cands, Len(acc.cands)), TOP_20)
       /\ last' = [StageOp("poll_15m", acc, SymbolsOf(top_100)) EXCEPT !.known = known]
       /\ UNCHANGED <<symbols, top_symbols_1h, signals, streak, deactivated>>

\* a poll_15m that, finding no snapshot, polls every active symbol instead
poll_15m_falls_back ==
  LET top_100 == get_latest_top_symbols(TOP_100)
      every == get_all_symbols
  IN Poll15mOver(IF top_100 = <<>>
                 THEN [i \in 1..Len(every) |-> [symbol |-> every[i], prob_score |-> 0, rank |-> i]]
                 ELSE top_100,
              FALSE)

\* main.py:95-127  poll_15m, in the wide markets or in the small ones
Poll15mIn(wide) ==
  LET top_100 == get_latest_top_symbols(TOP_100)
  IN IF top_100 = <<>>
     THEN /\ last' = [NoOp EXCEPT !.op = "poll_15m", !.failBefore = FailCounts]
          /\ UNCHANGED <<symbols, klines, top_symbols_1h, signals, TOP_20_15M, streak,
                         deactivated>>
     ELSE Poll15mOver(top_100, wide)

\* main.py:95-127  poll_15m
poll_15m == Poll15mIn(FALSE)

\* a poll_5m_confirm that uses its candidates up: the list is empty afterwards
poll_5m_confirm_consumes ==
  /\ TOP_20_15M # <<>>
  /\ \E replies \in [{TOP_20_15M[i].symbol : i \in 1..Len(TOP_20_15M)} -> Poll5mReplies] :
       LET acc == Poll5mLoop(Loop(klines, <<>>, signals), TOP_20_15M, replies, 1)
       IN /\ Len(acc.signals) <= MaxSignals
          /\ klines' = acc.klines
          /\ signals' = acc.signals
          /\ TOP_20_15M' = <<>>
          /\ last' = StageOp("poll_5m_confirm", acc, SymbolsOf(TOP_20_15M))
          /\ UNCHANGED <<symbols, top_symbols_1h, streak, deactivated>>

\* main.py:129-159  poll_5m_confirm
poll_5m_confirm ==
  IF TOP_20_15M = <<>>
  THEN /\ last' = [NoOp EXCEPT !.op = "poll_5m_confirm", !.failBefore = FailCounts]
       /\ UNCHANGED <<symbols, klines, top_symbols_1h, signals, TOP_20_15M, streak,
                      deactivated>>
  ELSE \E replies \in [{TOP_20_15M[i].symbol : i \in 1..Len(TOP_20_15M)} -> Poll5mReplies] :
         LET acc == Poll5mLoop(Loop(klines, <<>>, signals), TOP_20_15M, replies, 1)
         IN /\ Len(acc.signals) <= MaxSignals
            /\ klines' = acc.klines
            /\ signals' = acc.signals
            /\ last' = StageOp("poll_5m_confirm", acc, SymbolsOf(TOP_20_15M))
            /\ UNCHANGED <<symbols, top_symbols_1h, TOP_20_15M, streak, deactivated>>

\* snapshots a caller can hand to insert_top_symbols
TopLists ==
  {Ranked(<<[symbol |-> "AUSDT", prob_score |-> 5]>>),
   Ranked(<<[symbol |-> "BUSDT", prob_score |-> 5], [symbol |-> "AUSDT", prob_score |-> 3]>>)}

\* db.py:374-392  one call of insert_top_symbols
InsertTopSymbols ==
  \E top_list \in TopLists : \E gap \in SnapshotGaps :
    /\ top_symbols_1h' = insert_top_symbols(top_symbols_1h, top_list, gap)
    /\ last' = [NoOp EXCEPT !.op = "insert_top_symbols",
                            !.args = <<gap, Len(top_symbols_1h)>>]
    /\ UNCHANGED <<symbols, klines, signals, TOP_20_15M, streak, deactivated>>

(***************************************************************************)
(* Part 4: the entry point and the scheduler loop (main.py)                *)
(***************************************************************************)

\* main.py:19  running = True, at import
MainInit ==
  /\ running = TRUE
  /\ mainpc = "init_db"
  /\ due = <<>>
  /\ db_file = FALSE
  /\ backfill = "unchecked"
  /\ starts = 1
  /\ passes = 0

\* bounds of the entry-point model
MaxStarts == 2      \* process starts followed
MaxPasses == 1      \* run_pending calls followed in one process

Jobs == {"hourly_scan", "poll_15m", "poll_5m_confirm"}

\* the jobs one schedule.run_pending call finds due, in the order it runs them
DueLists ==
  {<<>>} \cup {<<a>> : a \in Jobs}
  \cup {d \in {<<a, b>> : a \in Jobs, b \in Jobs} : d[1] # d[2]}
  \cup {<<"hourly_scan", "poll_15m", "poll_5m_confirm">>}

\* main.py:21-24  signal_handler
signal_handler ==
  /\ mainpc \notin {"stopped", "exited"}
  /\ running
  /\ running' = FALSE
  /\ UNCHANGED <<mainpc, due, db_file, backfill, starts, passes>>
  /\ UNCHANGED dbVars

\* main.py:179-185  create the database and sync the universe, on first start
MainInitDb ==
  /\ mainpc = "init_db"
  /\ mainpc' = "health"
  /\ db_file' = TRUE
  /\ IF db_file THEN UNCHANGED dbVars
     ELSE \E ok \in BOOLEAN : \E tradable \in SUBSET SymbolNames :
            init_symbols_db(ok, tradable)
  /\ UNCHANGED <<running, due, backfill, starts, passes>>

\* main.py:187-200  the health check on the klines endpoint
MainHealthCheck ==
  /\ mainpc = "health"
  /\ \E reply \in FailedReplies \cup {Reply(HttpKlines, ShortBatch, 0, NaN, FALSE)} :
       mainpc' = IF get_klines_fails(reply) THEN "exited" ELSE "menu"
  /\ UNCHANGED <<running, due, db_file, backfill, starts, passes>>
  /\ UNCHANGED dbVars

\* main.py:202-217  the menu: '1' starts scanning, '2'..'4' leave
MainMenu ==
  /\ mainpc = "menu"
  /\ \E choice \in {"1", "2"} :
       mainpc' = IF choice = "1" THEN "history_check" ELSE "exited"
  /\ UNCHANGED <<running, due, db_file, backfill, starts, passes>>
  /\ UNCHANGED dbVars

\* a startup that never backfills
MainHistoryCheckSkips ==
  /\ mainpc = "history_check"
  /\ mainpc' = "schedule"
  /\ backfill' = IF get_active_symbols_with_history(min_hours, "1h") = <<>>
                 THEN "needed" ELSE "not_needed"
  /\ UNCHANGED <<running, due, db_file, starts, passes>>
  /\ UNCHANGED dbVars

\* main.py:219-222  is there any active symbol with enough 1h history?
MainHistoryCheck ==
  /\ mainpc = "history_check"
  /\ IF get_active_symbols_with_history(min_hours, "1h") = <<>>
     THEN mainpc' = "populate" /\ backfill' = "needed"
     ELSE mainpc' = "schedule" /\ backfill' = "not_needed"
  /\ UNCHANGED <<running, due, db_file, starts, passes>>
  /\ UNCHANGED dbVars

\* main.py:223-224  initial_kline_population()
MainPopulate ==
  /\ mainpc = "populate"
  /\ initial_kline_population
  /\ mainpc' = "first_scan"
  /\ backfill' = "done"
  /\ UNCHANGED <<running, due, db_file, starts, passes>>

\* main.py:226-228  hourly_scan()
MainFirstScan ==
  /\ mainpc = "first_scan"
  /\ hourly_scan
  /\ mainpc' = "first_poll"
  /\ UNCHANGED <<running, due, db_file, backfill, starts, passes>>

\* main.py:229-231  poll_15m()
MainFirstPoll ==
  /\ mainpc = "first_poll"
  /\ poll_15m
  /\ mainpc' = "schedule"
  /\ UNCHANGED <<running, due, db_file, backfill, starts, passes>>

\* main.py:233-241  the jobs are registered; prune_old_klines finds no bar
\* older than KLINE_HISTORY_DAYS
MainSchedule ==
  /\ mainpc = "schedule"
  /\ mainpc' = "loop"
  /\ UNCHANGED <<running, due, db_file, backfill, starts, passes>>
  /\ UNCHANGED dbVars

\* main.py:242-243  while running: schedule.run_pending() collects the due jobs
MainLoop ==
  /\ mainpc = "loop"
  /\ IF running
     THEN /\ passes < MaxPasses
          /\ passes' = passes + 1
          /\ \E d \in DueLists : due' = d /\ mainpc' = "pending"
     ELSE due' = due /\ passes' = passes /\ mainpc' = "stopped"
  /\ UNCHANGED <<running, db_file, backfill, starts>>
  /\ UNCHANGED dbVars

\* the job function registered under a name (main.py:235-237)
Job(name) ==
  CASE name = "hourly_scan" -> hourly_scan
    [] name = "poll_15m" -> poll_15m
    [] name = "poll_5m_confirm" -> poll_5m_confirm

\* main.py:243  run_pending runs the next due job; running is not consulted
MainRunJob ==
  /\ mainpc = "pending"
  /\ due # <<>>
  /\ Job(Head(due))
  /\ due' = Tail(due)
  /\ UNCHANGED <<running, mainpc, db_file, backfill, starts, passes>>

\* main.py:244  time.sleep(1), after run_pending has returned
MainSleep ==
  /\ mainpc = "pending"
  /\ due = <<>>
  /\ mainpc' = "loop"
  /\ UNCHANGED <<running, due, db_file, backfill, starts, passes>>
  /\ UNCHANGED dbVars

\* the process is started again on the database it left: the module globals
\* running (main.py:19) and TOP_20_15M (main.py:28) are fresh
Restart ==
  /\ mainpc \in {"stopped", "exited"}
  /\ starts < MaxStarts
  /\ starts' = starts + 1
  /\ passes' = 0
  /\ mainpc' = "init_db"
  /\ running' = TRUE
  /\ due' = <<>>
  /\ backfill' = "unchecked"
  /\ TOP_20_15M' = <<>>
  /\ last' = NoOp
  /\ UNCHANGED <<db_file, symbols, klines, top_symbols_1h, signals, streak, deactivated>>

MainNext ==
  \/ signal_handler
  \/ MainInitDb
  \/ MainHealthCheck
  \/ MainMenu
  \/ MainHistoryCheck
  \/ MainPopulate
  \/ MainFirstScan
  \/ MainFirstPoll
  \/ MainSchedule
  \/ MainLoop
  \/ MainRunJob
  \/ MainSleep
  \/ Restart

(***************************************************************************)
(* Part 5: the strategy scorer and the probability score (db.py seed,      *)
(* indicators.py)                                                          *)
(***************************************************************************)

NoCalc == [fn |-> "none"]

\* db.py:163-167  the seeded catalog; prob_threshold in tenths
StrategyCatalog ==
  [HIGH_CONFIDENCE |-> [min_signals |-> 4, prob_threshold |-> 7],
   BALANCED |-> [min_signals |-> 3, prob_threshold |-> 5],
   AGGRESSIVE |-> [min_signals |-> 2, prob_threshold |-> 3]]

StrategyNames == {"HIGH_CONFIDENCE", "BALANCED", "AGGRESSIVE"}

\* the indicator conditions besides "positive composite score"
OtherIndicators == 7
\* composite scores, in tenths
ScoreGrid == {0 - 10, 0 - 1, 0, 2, 3, 4, 5, 6, 7, 8, 10}

\* the scorer (not in src): the eighth indicator fires on a positive score
fired_count(fired_others, composite_score) ==
  fired_others + (IF composite_score > 0 THEN 1 ELSE 0)

\* a scorer that looks at the score alone
strategy_signal_by_score(name, fired, composite_score) ==
  composite_score >= StrategyCatalog[name].prob_threshold

\* the scorer (not in src): signal = fired_count >= min_signals and
\* composite_score >= prob_threshold
strategy_signal(name, fired, composite_score) ==
  /\ fired >= StrategyCatalog[name].min_signals
  /\ composite_score >= StrategyCatalog[name].prob_threshold

\* one call of evaluate_strategy on the latest bar
EvaluateStrategy ==
  \E name \in StrategyNames : \E others \in 0..OtherIndicators : \E sc \in ScoreGrid :
    calc' = [fn |-> "evaluate_strategy", name |-> name,
             fired |-> fired_count(others, sc), prob_score |-> sc,
             signal |-> strategy_signal(name, fired_count(others, sc), sc)]

\* float('nan') in the scaled arithmetic of the score
Undefined == 0 - 1000000

Times(a, b) == IF a = Undefined \/ b = Undefined THEN Undefined ELSE a * b
Plus(a, b) == IF a = Undefined \/ b = Undefined THEN Undefined ELSE a + b
\* x > y on floats: False when either side is NaN
Greater(a, b) == a # Undefined /\ b # Undefined /\ a > b

\* indicators.py:69-72, 119-122  the weights, in hundredths
weights ==
  [trend |-> 30, rsi |-> 20, macd |-> 15, vol_spike |-> 10, vol_ratio_5 |-> 5,
   vol_ratio_10 |-> 5, vol_1h |-> 5, ma_cross |-> 5]
WeightOrder ==
  <<"trend", "rsi", "macd", "vol_spike", "vol_ratio_5", "vol_ratio_10", "vol_1h", "ma_cross">>

\* indicators.py:14-20  RSI from the rolling mean gain and loss:
\* 100 - 100 / (1 + gain / loss); 0 / 0 is NaN, gain / 0 is inf
calculate_rsi(gain, loss) ==
  IF gain = Undefined \/ loss = Undefined THEN Undefined
  ELSE IF loss = 0 THEN (IF gain = 0 THEN Undefined ELSE 100)
  ELSE 100 - (100 * loss) \div (gain + loss)

\* indicators.py:36-39  volume / rolling mean volume, in tenths; 0 / 0 is NaN
volume_ratio(volume, avg_vol) ==
  IF avg_vol = Undefined THEN Undefined
  ELSE IF avg_vol = 0 THEN Undefined
  ELSE (10 * volume) \div avg_vol

\* indicators.py:31-34  volume > avg_vol * 2.0, as 0 / 1
volume_spike(volume, avg_vol) ==
  IF Greater(volume, Times(avg_vol, 2)) THEN 1 ELSE 0

\* the four conditions of hourly_trend that hold at one bar
TrendConditions(row) ==
  {c \in {"price_above_ma", "short_above_long", "macd_positive", "rsi_bull"} :
     \/ c = "price_above_ma" /\ row.price_above_ma
     \/ c = "short_above_long" /\ row.short_above_long
     \/ c = "macd_positive" /\ Greater(row.macd_hist, 0)
     \/ c = "rsi_bull" /\ Greater(calculate_rsi(row.gain, row.loss), 50)}

\* a trend whose conditions vote against as well as for: -0.25 when one fails
hourly_trend_signed(row) ==
  LET votes == 25 * Cardinality(TrendConditions(row))
               - 25 * (4 - Cardinality(TrendConditions(row)))
  IN IF votes > 50 THEN 1 ELSE IF votes < 0 - 50 THEN 0 - 1 ELSE 0

\* indicators.py:48-62  hourly_trend at one bar: four votes of 0.25
hourly_trend(row) ==
  LET votes == (IF row.price_above_ma THEN 25 ELSE 0)
               + (IF row.short_above_long THEN 25 ELSE 0)
               + (IF Greater(row.macd_hist, 0) THEN 25 ELSE 0)
               + (IF Greater(calculate_rsi(row.gain, row.loss), 50) THEN 25 ELSE 0)
  IN IF votes > 50 THEN 1 ELSE IF votes < 0 - 50 THEN 0 - 1 ELSE 0

Sign(x) == IF x > 0 THEN 1 ELSE IF x < 0 THEN 0 - 1 ELSE 0

\* np.clip / Series.clip to [-1, 1], in ten-thousandths: NaN stays NaN
clip(x) ==
  IF x = Undefined THEN Undefined
  ELSE IF x > 10000 THEN 10000 ELSE IF x < 0 - 10000 THEN 0 - 10000 ELSE x

\* a clip that lets every value through
clip_nothing(x) == x

fillna(x) == IF x = Undefined THEN 0 ELSE x

RECURSIVE WeightedSum(_, _, _)
\* indicators.py:108  sum(scores[k] * weights[k] for k in weights)
WeightedSum(scores, fill, i) ==
  IF i = 0 THEN 0
  ELSE LET k == WeightOrder[i]
           v == IF fill THEN fillna(scores[k]) ELSE scores[k]
       IN Plus(WeightedSum(scores, fill, i - 1), Times(v, weights[k]))

\* indicators.py:76-105  the scores of get_probability_score, in hundredths
ScalarScores(row) ==
  LET trend == hourly_trend(row)
  IN [trend |-> 100 * trend,
      rsi |-> Times(Plus(calculate_rsi(row.gain, row.loss), 0 - 50), 0 - 2),
      macd |-> IF Greater(row.macd_hist, 0) THEN 100 ELSE 0 - 100,
      vol_spike |-> 100 * volume_spike(row.volume, row.avg_vol_10) * trend,
      vol_ratio_5 |-> Times(Plus(volume_ratio(row.volume, row.avg_vol_5), 0 - 10), 20 * trend),
      vol_ratio_10 |-> Times(Plus(volume_ratio(row.volume, row.avg_vol_10), 0 - 10), 20 * trend),
      vol_1h |-> IF row.volatile THEN 50 * trend ELSE (0 - 50) * trend,
      ma_cross |-> IF row.short_above_long THEN 100 ELSE 0 - 100]

\* indicators.py:66, 116  len(df) < 50
MIN_DATA == 50

\* indicators.py:64-109  get_probability_score of `bars` bars whose last bar
\* is `row`, in ten-thousandths
get_probability_score(bars, row) ==
  IF bars < MIN_DATA THEN 0 ELSE clip(WeightedSum(ScalarScores(row), FALSE, 8))

\* indicators.py:127-139  the score columns of the series, at one bar
SeriesScores(row) ==
  [ScalarScores(row) EXCEPT !.macd = 100 * Sign(row.macd_hist)]

\* indicators.py:111-147  calculate_probability_score_series of `bars` bars,
\* at the bar `row`
calculate_probability_score_series(bars, row) ==
  IF bars < MIN_DATA THEN 0 ELSE clip(WeightedSum(SeriesScores(row), TRUE, 8))

\* the windows of the rolling statistics
\* indicators.py:14  period of the RSI
RSI_PERIOD == 14
\* indicators.py:31  period of the volume spike, and of the second volume ratio
VOLUME_PERIOD == 10
\* indicators.py:36  period of the first volume ratio
RATIO_PERIOD == 5
\* indicators.py:41  window of the volatility, over returns that start at the second bar
VOLATILITY_WINDOW == 5
\* indicators.py:48  long_ma
LONG_MA == 50

\* rolling(window).mean() at a bar with `prior` bars before it: NaN until
\* the window is full
Rolling(prior, window, values) == IF prior + 1 >= window THEN values ELSE {Undefined}
\* a comparison against such a mean: False until the window is full
Compared(prior, window) == IF prior + 1 >= window THEN BOOLEAN ELSE {FALSE}

\* what the indicators can be at one bar of a finite series, `prior` bars
\* after its first
Means == {0, 1, 3}
Volumes == {0, 1, 2, 4}
AvgVolumes == {0, 1, 2}
Rows(prior) ==
  {r \in [prior : {prior},
          price_above_ma : Compared(prior, LONG_MA),
          short_above_long : Compared(prior, LONG_MA),
          macd_hist : IF prior = 0 THEN {0} ELSE {0 - 1, 0, 1},
          gain : Rolling(prior, RSI_PERIOD, Means),
          loss : Rolling(prior, RSI_PERIOD, Means),
          volume : Volumes,
          avg_vol_5 : Rolling(prior, RATIO_PERIOD, AvgVolumes),
          avg_vol_10 : Rolling(prior, VOLUME_PERIOD, AvgVolumes),
          volatile : Compared(prior, VOLATILITY_WINDOW + 1)] :
     /\ r.avg_vol_5 \in {0, Undefined} => r.avg_vol_10 \in {0, Undefined} \/ r.volume = 0
     /\ r.avg_vol_5 = 0 => r.volume = 0
     /\ r.avg_vol_10 = 0 => r.volume = 0 /\ r.avg_vol_5 = 0}

\* lengths of the input: below every window, below the long one, the
\* minimum, above it
Lengths == {4, 14, 50, 60}
\* a bar of an input of `bars` bars: the first, the last, and the bars that
\* fill a window
Priors(bars) == {p \in {0, 4, 9, 13, 49, bars - 1} : p < bars}

\* the inputs: a length and one bar of a series of that length
Inputs ==
  UNION {{[fn |-> "bars", bars |-> n, row |-> r] : r \in Rows(p)} :
           <<n, p>> \in {<<n, p>> \in Lengths \X (0..60) : p \in Priors(n)}}

\* one call of get_probability_score, whose scores are read at the last bar
ScoreLatest ==
  /\ calc.fn = "bars"
  /\ calc.row.prior = calc.bars - 1
  /\ calc' = [fn |-> "get_probability_score", bars |-> calc.bars, row |-> calc.row,
              out |-> get_probability_score(calc.bars, calc.row)]

\* one element of calculate_probability_score_series
ScoreSeries ==
  /\ calc.fn = "bars"
  /\ calc' = [fn |-> "calculate_probability_score_series", bars |-> calc.bars,
              row |-> calc.row,
              out |-> calculate_probability_score_series(calc.bars, calc.row)]

\* one element of each indicator series
IndicatorsAt ==
  /\ calc.fn = "bars"
  /\ calc' = [fn |-> "indicators", bars |-> calc.bars, row |-> calc.row,
              out |-> [calculate_rsi |-> calculate_rsi(calc.row.gain, calc.row.loss),
                       volume_spike |-> volume_spike(calc.row.volume, calc.row.avg_vol_10),
                       volume_ratio |-> volume_ratio(calc.row.volume, calc.row.avg_vol_5),
                       hourly_trend |-> hourly_trend(calc.row)]]

(***************************************************************************)
(* Claims about MexcAPI._request                                           *)
(***************************************************************************)

\* C1: any two outbound HTTP requests of the client, from any callers in any
\* interleaving, are issued at least rate_limit_delay apart (minSendGap is the
\* smallest gap seen so far, capped at rate_limit_delay).
C1_RequestsSeparated == minSendGap >= rate_limit_delay

\* C2: a caller inside session.get never holds _rate_limit_lock: the lock is
\* free or held by a different caller.
C2_LockFreeDuringHttp ==
  \A t \in Callers : pc[t] = "http" => rate_limit_lock # t

\* C2 witness: one caller's request is in flight while another caller has
\* taken the lock and written its own timestamp.
C2_Witness ==
  \E t \in Callers : \E u \in Callers \ {t} :
    pc[t] = "http" /\ rate_limit_lock = u /\ pc[u] = "release"

\* C3 as stated: the N-th call of a caller starts at least (N-1) intervals
\* after its first call started.
C3_StartToStart ==
  \A t \in Callers :
    callNo[t] >= 1 =>
      callStart[t] - firstStart[t] >= (callNo[t] - 1) * rate_limit_delay

\* C3 amended: the N-th call of a caller passes the rate gate (writes
\* _last_request_time) at least (N-1) intervals after its first call started.
C3_StartToGate ==
  \A t \in Callers :
    (callNo[t] >= 1 /\ pc[t] \in {"release", "get", "http", "done"}) =>
      gateTime[t] - firstStart[t] >= (callNo[t] - 1) * rate_limit_delay

\* C3 witness: a caller has completed three sequential calls.
C3_Witness == \E t \in Callers : callNo[t] = 3 /\ pc[t] = "done"

\* C4: every failing _request (transport failure, non-2xx status, or a 2xx
\* body carrying a code other than 200) ends in the one error kind and never
\* returns data.
C4_FailuresRaise ==
  \A t \in Callers :
    (pc[t] = "done" /\ respClass[t] \in {"transport", "non2xx", "body_code"}) =>
      outcome[t].kind = "ValueError"

(***************************************************************************)
(* Claims about the persistence layer and the funnel stages                *)
(***************************************************************************)

\* C5: each kline table holds at most one row per (symbol, timestamp), and
\* saving the bars that were just saved, again, into the same interval table
\* leaves every kline table unchanged, whether or not the bars' fields parsed.
C5_ResaveChangesNothing ==
  /\ [](\A i \in Intervals : \A r \in BagToSet(klines[i]) : CopiesIn(r, klines[i]) <= 1)
  /\ [][(/\ last.op = "save_klines_by_interval"
         /\ last'.op = "save_klines_by_interval"
         /\ last'.args = last.args) => klines' = klines]_vars

\* C6: running poll_5m_confirm again on the same top-20 list and the same
\* market data leaves the signals table as the first run left it.
C6_RerunAddsNoSignal ==
  \A replies \in [{TOP_20_15M[i].symbol : i \in 1..Len(TOP_20_15M)} -> Poll5mReplies] :
    LET first == Poll5mLoop(Loop(klines, <<>>, signals), TOP_20_15M, replies, 1)
        again == Poll5mLoop(Loop(first.klines, <<>>, first.signals), TOP_20_15M, replies, 1)
    IN again.signals = first.signals

\* C7: after a stage run, every symbol whose kline fetch failed has its
\* klines_fail_count one above the value the run started from, and every
\* symbol whose kline fetch succeeded has it at 0.
C7_StageCountsFailures ==
  last.op \in Stages =>
    \A s \in last.fetched :
      symbols[s].klines_fail_count =
        IF s \in last.failed THEN last.failBefore[s] + 1 ELSE 0

C9_SyncReactivates ==
  last.op = "init_symbols_db" =>
    \A s \in last.revived : s \in SeqToSet(get_all_symbols)

\* C10: no funnel stage fetches klines for a symbol the failure threshold
\* has marked inactive, until the next universe sync.
C10_NoFetchForDeactivated ==
  last.op \in Stages => last.fetched \cap deactivated = {}

\* C11: after an init_symbols_db whose exchange-info call succeeded, a stored
\* symbol is active exactly when the response reports it tradable, and every
\* symbol stored before is still stored; for every response, the one with no
\* tradable symbol included.
C11_SyncMirrorsExchange ==
  [][(last'.op = "init_symbols_db" /\ last'.args[1]) =>
       /\ \A s \in SymbolNames :
            symbols'[s].stored => (symbols'[s].is_active = 1 <=> s \in last'.args[2])
       /\ \A s \in SymbolNames : symbols[s].stored => symbols'[s].stored]_vars

\* C12: after every hourly_scan run, get_latest_top_symbols returns the
\* ranking that run produced; the previous snapshot is never left current.
C12_LatestIsThisRun ==
  last.op = "hourly_scan" => get_latest_top_symbols(TOP_100) = last.produced

AllStages == Stages \cup {"initial_kline_population"}

\* C13: in every stage batch each symbol of the batch is attempted exactly
\* once, in order, whatever errors earlier symbols of the batch raised.
C13_EverySymbolAttempted ==
  last.op \in AllStages =>
    /\ last.attempts = last.batch
    /\ \A i, j \in 1..Len(last.batch) : last.batch[i] = last.batch[j] => i = j
    /\ last.errors \subseteq SeqToSet(last.attempts)

\* C13 witness: a hourly_scan whose first symbol raised and whose second
\* symbol was processed to the end.
C13_Witness ==
  /\ last.op = "hourly_scan"
  /\ Len(last.attempts) = 2
  /\ last.attempts[1] \in last.errors
  /\ last.attempts[2] \notin last.errors

\* C14: a poll_15m that finds no snapshot and a poll_5m_confirm that finds
\* an empty top-20 list return having fetched nothing and written nothing.
C14_EmptyInputDoesNothing ==
  [][((last'.op = "poll_15m" /\ get_latest_top_symbols(TOP_100) = <<>>)
      \/ (last'.op = "poll_5m_confirm" /\ TOP_20_15M = <<>>)) =>
       /\ last'.attempts = <<>>
       /\ last'.fetched = {}
       /\ UNCHANGED <<symbols, klines, top_symbols_1h, signals, TOP_20_15M>>]_vars

\* C14 witness: poll_15m has run with active symbols stored and no snapshot
\* to read.
C14_Witness ==
  /\ last.op = "poll_15m"
  /\ top_symbols_1h = <<>>
  /\ get_all_symbols # <<>>

InCall == {"acquire", "locked", "sleep", "stamp", "release", "get", "http"}

\* C16: the wait a caller has left inside the rate gate never exceeds
\* rate_limit_delay, and every _request that was entered ends, returning data
\* or raising, even if the exchange never answers.
C16_EveryCallEnds ==
  /\ [](\A t \in Callers : pc[t] = "sleep" => wake[t] - now <= rate_limit_delay)
  /\ \A t \in Callers : (pc[t] \in InCall) ~> (pc[t] = "done")

\* C18: a hourly_scan or poll_15m whose configured strategy name is not in
\* the catalog does not complete with the scoring error of a symbol caught
\* and the symbol skipped: the run fails.
C18_UnknownStrategyIsFatal ==
  (last.op \in {"hourly_scan", "poll_15m"} /\ ~last.known) =>
    last.errors \ last.failed = {}

\* the rows of `table` that poll_5m_confirm has appended in this step
NewSignals == {signals'[i].symbol : i \in (Len(signals) + 1)..Len(signals')}

\* C23: poll_5m_confirm persists a signal for a candidate only if the
\* candidate's latest 5m momentum is non-negative; a candidate whose latest
\* momentum is negative never produces a signal in that run.
C23_SignalOnlyOnNonNegative ==
  [][last'.op = "poll_5m_confirm" =>
       /\ \A s \in NewSignals :
            /\ s \in DOMAIN last'.momentum
            /\ last'.momentum[s] # NaN
            /\ last'.momentum[s] >= 0
       /\ \A s \in DOMAIN last'.momentum :
            (last'.momentum[s] # NaN /\ last'.momentum[s] < 0) => s \notin NewSignals]_vars

\* C24: a candidate whose latest momentum_roc is undefined is not evaluated
\* as 0: poll_5m_confirm emits no signal for it.
C24_UndefinedMomentumNoSignal ==
  [][last'.op = "poll_5m_confirm" =>
       \A s \in DOMAIN last'.momentum : last'.momentum[s] = NaN => s \notin NewSignals]_vars

\* the rows of one symbol in a kline table
BarsOf(table, s) == {<<r, CopiesIn(r, table)>> : r \in {x \in BagToSet(table) : x.symbol = s}}

\* C26: poll_5m_confirm leaves the symbols table, klines_1h, top_symbols_1h
\* and the top-20 list unchanged; poll_15m leaves the symbols table,
\* klines_1h and top_symbols_1h unchanged; neither changes the symbols a
\* later hourly_scan considers.
C26_NoFeedback ==
  [][/\ last'.op = "poll_5m_confirm" =>
          /\ UNCHANGED <<symbols, top_symbols_1h, TOP_20_15M>>
          /\ klines'["1h"] = klines["1h"]
     /\ last'.op = "poll_15m" =>
          /\ UNCHANGED <<symbols, top_symbols_1h>>
          /\ klines'["1h"] = klines["1h"]
     /\ last'.op \in {"poll_15m", "poll_5m_confirm"} =>
          get_active_symbols_with_history(min_hours, "1h")'
            = get_active_symbols_with_history(min_hours, "1h")]_vars

\* C26 witness: poll_5m_confirm has gone through its candidates, stored 5m
\* bars and persisted a signal.
C26_Witness ==
  /\ last.op = "poll_5m_confirm"
  /\ last.attempts # <<>>
  /\ signals # <<>>
  /\ klines["5m"] # EmptyBag
  /\ klines["15m"] # EmptyBag

\* C25: immediately after every insert_top_symbols call, top_symbols_1h
\* holds no row whose timestamp is more than 24 hours older than the
\* snapshot just inserted.
C25_OldSnapshotsPruned ==
  last.op = "insert_top_symbols" =>
    /\ top_symbols_1h # <<>>
    /\ top_symbols_1h[Len(top_symbols_1h)].age = 0
    /\ \A i \in 1..Len(top_symbols_1h) : top_symbols_1h[i].age <= RETENTION_HOURS

\* C25 witness: an insert has deleted a snapshot and kept one that is
\* exactly 24 hours old.
C25_Witness ==
  /\ last.op = "insert_top_symbols"
  /\ Len(top_symbols_1h) < last.args[2] + 1
  /\ top_symbols_1h[1].age = RETENTION_HOURS

(***************************************************************************)
(* Claims about the entry point                                            *)
(***************************************************************************)

\* this step begins a run of the stage `name`, from main() or from the scheduler
StageStarts(name) ==
  \/ name = "hourly_scan" /\ mainpc = "first_scan" /\ mainpc' = "first_poll"
  \/ name = "poll_15m" /\ mainpc = "first_poll" /\ mainpc' = "schedule"
  \/ mainpc = "pending" /\ due # <<>> /\ Head(due) = name /\ due' = Tail(due)

\* C15: once running is False, no run of hourly_scan, poll_15m or
\* poll_5m_confirm begins.
C15_NoStageAfterSignal ==
  [][~running => \A name \in Jobs : ~StageStarts(name)]_vars

\* C17: when startup finds no active symbol with enough 1h history, no
\* hourly_scan begins before initial_kline_population has finished, and that
\* population attempts every symbol get_all_symbols returns.
C17_BackfillBeforeFirstScan ==
  [][/\ StageStarts("hourly_scan") => backfill # "needed"
     /\ (mainpc = "populate" /\ mainpc' # "populate") =>
          /\ last'.op = "initial_kline_population"
          /\ last'.attempts = get_all_symbols
          /\ backfill' = "done"]_vars

\* C17 witness: a hourly_scan has run after a backfill over two symbols.
C17_Witness ==
  /\ backfill = "done"
  /\ last.op = "hourly_scan"
  /\ Len(get_all_symbols) = 2

\* the scheduler loop is running: the jobs are registered
SchedulerRunning == mainpc \in {"loop", "pending"}

\* C30: once the scheduler is running, a symbol with fewer 1h bars than the
\* history check asks gains no 1h bar from any stage and is not among the
\* symbols of Stage A.
C30_NoBarsBelowHistory ==
  [][SchedulerRunning =>
       \A s \in SymbolNames :
         HistoryCount(klines["1h"], s) < min_hours =>
           /\ BarsOf(klines'["1h"], s) = BarsOf(klines["1h"], s)
           /\ HistoryCount(klines'["1h"], s) < min_hours]_vars

\* C30 witness: the scheduler has run hourly_scan, which fetched a symbol,
\* while another active symbol is below the history check.
C30_Witness ==
  /\ SchedulerRunning
  /\ last.op = "hourly_scan"
  /\ last.fetched # {}
  /\ \E s \in ActiveSet(symbols) :
       /\ s \notin last.fetched
       /\ HistoryCount(klines["1h"], s) < min_hours
       /\ HistoryCount(klines["1h"], s) > 0

(***************************************************************************)
(* Claims about the scorer and the probability score                       *)
(***************************************************************************)

\* C19: evaluate_strategy signals only when fired_count >= min_signals and
\* the composite score >= prob_threshold of the named config; with
\* fired_count < min_signals it never signals, whatever the score.
C19_SignalNeedsBoth ==
  calc.fn = "evaluate_strategy" =>
    /\ calc.signal => /\ calc.fired >= StrategyCatalog[calc.name].min_signals
                      /\ calc.prob_score >= StrategyCatalog[calc.name].prob_threshold
    /\ calc.fired < StrategyCatalog[calc.name].min_signals => ~calc.signal

\* C19 witness: three indicators fired under HIGH_CONFIDENCE (min_signals 4)
\* with the highest score, and no signal.
C19_Witness ==
  /\ calc.fn = "evaluate_strategy"
  /\ calc.name = "HIGH_CONFIDENCE"
  /\ calc.fired = 3
  /\ calc.prob_score = 10
  /\ ~calc.signal

\* C20: on at least 50 finite bars, get_probability_score and every element
\* of calculate_probability_score_series is a defined number within [-1, 1].
C20_ScoreDefinedAndClamped ==
  (/\ calc.fn \in {"get_probability_score", "calculate_probability_score_series"}
   /\ calc.bars >= 50) =>
    /\ calc.out # Undefined
    /\ calc.out >= 0 - 10000
    /\ calc.out <= 10000

\* C27: in calculate_probability_score_series every bar with fewer than 50
\* prior observations receives a score of exactly 0, whatever the length of
\* the input.
C27_EarlyBarsScoreZero ==
  (calc.fn = "calculate_probability_score_series" /\ calc.row.prior < 50) => calc.out = 0

\* the warm-up period of the indicators followed at one bar
WarmUp ==
  [calculate_rsi |-> RSI_PERIOD, volume_spike |-> VOLUME_PERIOD,
   volume_ratio |-> RATIO_PERIOD, hourly_trend |-> LONG_MA]

\* C28: for every indicator and every input shorter than the indicator's
\* warm-up period, the output at every index is undefined, never a number.
C28_ShortInputUndefined ==
  calc.fn = "indicators" =>
    \A ind \in DOMAIN WarmUp : calc.bars < WarmUp[ind] => calc.out[ind] = Undefined

Init == ApiInit /\ DbInit /\ MainInit /\ calc = NoCalc

SpecApi == Init /\ [][ApiNext /\ UNCHANGED <<dbVars, mainVars, calc>>]_vars

\* time past the horizon of the model: every pending sleep ends
ClockRunsOut ==
  /\ now = MaxTime
  /\ \E t \in Callers : pc[t] = "sleep" /\ wake[t] > now
  /\ wake' = [t \in Callers |-> Min(wake[t], now)]
  /\ UNCHANGED <<now, rate_limit_lock, last_request_time, pc, outcome, respClass,
                 callNo, firstStart, callStart, gateTime, lastSend, minSendGap>>

\* the statements of _request a caller runs by itself; Respond is the
\* exchange's step, and session.get carries no timeout that would end the
\* wait without it (api.py:49)
ClientStep(t) ==
  \/ Acquire(t) \/ CheckElapsed(t) \/ WakeUp(t) \/ Stamp(t) \/ Release(t)
  \/ SendRequest(t)

LiveNext == (ApiNext \/ ClockRunsOut) /\ UNCHANGED <<dbVars, mainVars, calc>>

\* every caller keeps running and the clock keeps advancing; nothing makes
\* the exchange answer
SpecApiLive ==
  /\ Init
  /\ [][LiveNext]_vars
  /\ \A t \in Callers : WF_vars(ClientStep(t) /\ UNCHANGED <<dbVars, mainVars, calc>>)
  /\ WF_vars(Tick /\ UNCHANGED <<dbVars, mainVars, calc>>)
  /\ WF_vars(ClockRunsOut /\ UNCHANGED <<dbVars, mainVars, calc>>)

\* the kline tables under every save the stages can make
StoreNext ==
  \E i \in Intervals : \E s \in SymbolNames : \E raw \in RawBatches :
    SaveKlines(i, s, raw) /\ UNCHANGED <<apiVars, mainVars, calc>>

SpecStore == Init /\ [][StoreNext]_vars

\* the operations of db.py and the stages of main.py on one database
Next ==
  \/ \E ok \in BOOLEAN : \E tradable \in SUBSET SymbolNames :
       init_symbols_db(ok, tradable) /\ UNCHANGED <<apiVars, mainVars, calc>>
  \/ initial_kline_population /\ UNCHANGED <<apiVars, mainVars, calc>>
  \/ hourly_scan /\ UNCHANGED <<apiVars, mainVars, calc>>
  \/ poll_15m /\ UNCHANGED <<apiVars, mainVars, calc>>
  \/ poll_5m_confirm /\ UNCHANGED <<apiVars, mainVars, calc>>

Spec == Init /\ [][Next]_vars

\* the symbols table under every operation that writes it, with the backfill
\* that gives symbols their 1h history
SymbolsNext ==
  \/ \E ok \in BOOLEAN : \E tradable \in SUBSET SymbolNames :
       init_symbols_db(ok, tradable) /\ UNCHANGED <<apiVars, mainVars, calc>>
  \/ \E s \in SymbolNames : increment_klines_fail_count(s) /\ UNCHANGED <<apiVars, mainVars, calc>>
  \/ \E s \in SymbolNames : reset_klines_fail_count(s) /\ UNCHANGED <<apiVars, mainVars, calc>>
  \/ initial_kline_population /\ UNCHANGED <<apiVars, mainVars, calc>>

SpecSymbols == Init /\ [][SymbolsNext]_vars

\* the stages on an exchange that lists one symbol, with the failure counter
\* driven by increment_klines_fail_count
FailNext ==
  \/ init_symbols_db(TRUE, {"AUSDT"}) /\ UNCHANGED <<apiVars, mainVars, calc>>
  \/ increment_klines_fail_count("AUSDT") /\ UNCHANGED <<apiVars, mainVars, calc>>
  \/ initial_kline_population /\ UNCHANGED <<apiVars, mainVars, calc>>
  \/ hourly_scan /\ UNCHANGED <<apiVars, mainVars, calc>>
  \/ poll_15m /\ UNCHANGED <<apiVars, mainVars, calc>>
  \/ poll_5m_confirm /\ UNCHANGED <<apiVars, mainVars, calc>>

SpecFail == Init /\ [][FailNext]_vars

\* the process from its start to its end, and started again
SpecMain == Init /\ [][MainNext /\ UNCHANGED <<apiVars, calc>>]_vars

\* calls of the strategy scorer
StrategyNext == EvaluateStrategy /\ UNCHANGED <<apiVars, dbVars, mainVars>>

SpecStrategy == Init /\ [][StrategyNext]_vars

\* calls of the probability score
ScoreNext ==
  \/ ScoreLatest /\ UNCHANGED <<apiVars, dbVars, mainVars>>
  \/ ScoreSeries /\ UNCHANGED <<apiVars, dbVars, mainVars>>
  \/ IndicatorsAt /\ UNCHANGED <<apiVars, dbVars, mainVars>>

\* the indicators of one bar of the input are drawn at the start
ScoreInit ==
  /\ ApiInit /\ DbInit /\ MainInit
  /\ calc \in Inputs

SpecScore == ScoreInit /\ [][ScoreNext]_vars

\* the snapshot table under inserts at different times
SnapshotsNext == InsertTopSymbols /\ UNCHANGED <<apiVars, mainVars, calc>>

SpecSnapshots == Init /\ [][SnapshotsNext]_vars

\* a database after the backfill of a wide symbols table: every symbol is
\* active and has the 1h bars the history check asks for
WideInit ==
  /\ ApiInit /\ MainInit /\ calc = NoCalc
  /\ symbols = [s \in WideNames |-> [stored |-> TRUE, is_active |-> 1, klines_fail_count |-> 0]]
  /\ klines = [i \in Intervals |->
                IF i = "1h"
                THEN SetToBag({[symbol |-> s, timestamp |-> FullBatch[j]] :
                                 s \in WideNames, j \in 1..Len(FullBatch)})
                ELSE EmptyBag]
  /\ top_symbols_1h = <<>>
  /\ signals = <<>>
  /\ TOP_20_15M = <<>>
  /\ streak = [s \in SymbolNames |-> 0]
  /\ deactivated = {}
  /\ last = NoOp

\* the rows of the newest snapshot of top_symbols_1h
NewestRows == top_symbols_1h[Len(top_symbols_1h)].rows

\* C21: a snapshot written by hourly_scan holds at most 100 rows; each row is
\* a symbol scored above 0 in that run, with that score; the ranks are 1..n in
\* the order of the rows and the scores never rise along them; and no symbol
\* scored in the run and left out has a higher score than a row.
C21_SnapshotIsTopRanked ==
  last.op = "hourly_scan" /\ last.produced # <<>> =>
    /\ Len(NewestRows) <= TOP_100
    /\ \A i \in 1..Len(NewestRows) :
         /\ NewestRows[i].rank = i
         /\ NewestRows[i].symbol \in DOMAIN last.scores
         /\ last.scores[NewestRows[i].symbol] > 0
         /\ NewestRows[i].prob_score = last.scores[NewestRows[i].symbol]
    /\ \A i, j \in 1..Len(NewestRows) :
         i < j => NewestRows[i].prob_score >= NewestRows[j].prob_score
    /\ \A s \in DOMAIN last.scores \ SeqToSet(SymbolsOf(NewestRows)) :
         \A i \in 1..Len(NewestRows) : last.scores[s] <= NewestRows[i].prob_score

\* C21 witness: a scan of more than 100 positive scores wrote a snapshot of
\* 100 rows whose first score is above its last, leaving a positive scorer out.
C21_Witness ==
  /\ last.op = "hourly_scan"
  /\ top_symbols_1h # <<>>
  /\ Len(NewestRows) = TOP_100
  /\ NewestRows = last.produced
  /\ NewestRows[1].prob_score > NewestRows[TOP_100].prob_score
  /\ \E s \in DOMAIN last.scores :
       last.scores[s] > 0 /\ s \notin SeqToSet(SymbolsOf(NewestRows))

\* C22: after a poll_15m that read a snapshot, the top-20 list holds at most
\* 20 entries; each is a symbol of that snapshot scored above 0.4 in this run,
\* with that score; the scores never rise along the list; and no symbol that
\* scored above 0.4 and was left out has a higher score than an entry.
C22_Top20IsThisRun ==
  last.op = "poll_15m" /\ last.batch # <<>> =>
    /\ Len(TOP_20_15M) <= TOP_20
    /\ last.batch = SymbolsOf(get_latest_top_symbols(TOP_100))
    /\ \A i \in 1..Len(TOP_20_15M) :
         /\ TOP_20_15M[i].symbol \in SeqToSet(last.batch)
         /\ TOP_20_15M[i].symbol \in DOMAIN last.scores
         /\ last.scores[TOP_20_15M[i].symbol] > THRESHOLD_15M
         /\ TOP_20_15M[i].prob_score = last.scores[TOP_20_15M[i].symbol]
    /\ \A i, j \in 1..Len(TOP_20_15M) :
         i < j => TOP_20_15M[i].prob_score >= TOP_20_15M[j].prob_score
    /\ \A s \in DOMAIN last.scores \ SeqToSet(SymbolsOf(TOP_20_15M)) :
         last.scores[s] > THRESHOLD_15M =>
           \A i \in 1..Len(TOP_20_15M) : last.scores[s] <= TOP_20_15M[i].prob_score

\* C22 witness: a poll over a snapshot with more than 20 symbols scoring above
\* 0.4 kept 20 of them, of two different scores, and left a qualifying one out.
C22_Witness ==
  /\ last.op = "poll_15m"
  /\ Len(TOP_20_15M) = TOP_20
  /\ TOP_20_15M[1].prob_score > TOP_20_15M[TOP_20].prob_score
  /\ \E s \in DOMAIN last.scores :
       last.scores[s] > THRESHOLD_15M /\ s \notin SeqToSet(SymbolsOf(TOP_20_15M))

\* Stage A and Stage B over the wide table
WideNext ==
  \/ HourlyScanIn(TRUE) /\ UNCHANGED <<apiVars, mainVars, calc>>
  \/ Poll15mIn(TRUE) /\ UNCHANGED <<apiVars, mainVars, calc>>

SpecWide == WideInit /\ [][WideNext]_vars

====
